---- MODULE Spec2Model ----
EXTENDS Integers, Sequences, FiniteSets, TLC

(***************************************************************************)
(* Model of flopy/utils/mflistfile.py: the list-file budget scraper.       *)
(*                                                                         *)
(* A text line is a sequence of one-character strings; the line            *)
(* terminator is the character "\n".  A stream offset is counted in lines  *)
(* (tell() and seek() are only ever used at line starts).  A float is the  *)
(* record [k, v, e]: k = "num" stands for v * 10^(-e) in lowest form,      *)
(* k = "nan" for not-a-number and k = "none" for Python's None.            *)
(***************************************************************************)

\* ------------------------------------------------------------------------
\* Python str operations used by the parser
\* ------------------------------------------------------------------------

NL == "\n"

Min(a, b) == IF a < b THEN a ELSE b

MinOf(S) == CHOOSE i \in S : \A j \in S : i <= j

MaxOf(S) == CHOOSE i \in S : \A j \in S : i >= j

\* s[a:b] for 0 <= a, 0 <= b (Python clamps both ends to len(s))
Slice(s, a, b) == SubSeq(s, a + 1, Min(b, Len(s)))

\* s[a:]
SliceFrom(s, a) == SubSeq(s, a + 1, Len(s))

\* s without the blanks before position lo and after position hi
Between(s, keep) ==
  IF keep = {} THEN << >> ELSE SubSeq(s, MinOf(keep), MaxOf(keep))

\* str.strip()
Strip(s) == Between(s, {i \in 1..Len(s) : s[i] \notin {" ", NL}})

\* sub in s
Contains(s, sub) ==
  \/ sub = << >>
  \/ \E i \in 0..(Len(s) - Len(sub)) :
       s[i + 1] = sub[1] /\ SubSeq(s, i + 1, i + Len(sub)) = sub

\* len(re.findall(c, s)) for a one-character pattern c
CountChar(s, c) == Cardinality({i \in 1..Len(s) : s[i] = c})

UpperChar(c) ==
  CASE c = "a" -> "A" [] c = "n" -> "N" [] c = "e" -> "E"
    [] c = "o" -> "O" [] c = "u" -> "U" [] c = "t" -> "T"
    [] OTHER -> c

\* str.upper() on the alphabet the report files of the model use
Upper(s) == [i \in 1..Len(s) |-> UpperChar(s[i])]

RECURSIVE Replace(_, _, _)
\* s.replace(c, rep) for a one-character c
Replace(s, c, rep) ==
  IF s = << >> THEN << >>
  ELSE (IF Head(s) = c THEN rep ELSE <<Head(s)>>) \o Replace(Tail(s), c, rep)

\* s.find(c) + 1 for a one-character c, and len(s) + 1 when c is not in s
FirstOf(s, c) == MinOf({i \in 1..(Len(s) + 1) : i = Len(s) + 1 \/ s[i] = c})

\* s.split(c)[0] for a one-character c
SplitFirst(s, c) == SubSeq(s, 1, FirstOf(s, c) - 1)

\* the end of the token of s that starts at lo
TokenEnd(s, lo) ==
  MinOf({i \in lo..Len(s) : i = Len(s) \/ s[i + 1] \in {" ", NL}})

RECURSIVE TokensFrom(_, _), NextToken(_, _)
\* the tokens of s after position p
TokensFrom(s, p) ==
  IF \A i \in (p + 1)..Len(s) : s[i] \in {" ", NL} THEN << >>
  ELSE NextToken(s, MinOf({i \in (p + 1)..Len(s) : s[i] \notin {" ", NL}}))

\* the token of s that starts at lo, and those after it
NextToken(s, lo) ==
  <<SubSeq(s, lo, TokenEnd(s, lo))>> \o TokensFrom(s, TokenEnd(s, lo))

\* s.split(): the whitespace-separated tokens of s
SplitWs(s) == TokensFrom(s, 0)

\* ------------------------------------------------------------------------
\* int() and float()
\* ------------------------------------------------------------------------

Digits == <<"0", "1", "2", "3", "4", "5", "6", "7", "8", "9">>

DigitVal(c) == (CHOOSE i \in 1..10 : Digits[i] = c) - 1

AllDigits(s) == \A i \in 1..Len(s) : \E d \in 1..10 : Digits[d] = s[i]

RECURSIVE DigitsVal(_)
DigitsVal(s) ==
  IF s = << >> THEN 0
  ELSE 10 * DigitsVal(SubSeq(s, 1, Len(s) - 1)) + DigitVal(s[Len(s)])

Unsign(s) == IF s # << >> /\ Head(s) \in {"+", "-"} THEN Tail(s) ELSE s

Sign(s) == IF s # << >> /\ Head(s) = "-" THEN -1 ELSE 1

\* int() of the sign sg and the characters u after it
IntOf(sg, u) ==
  IF u # << >> /\ AllDigits(u)
  THEN [ok |-> TRUE, v |-> sg * DigitsVal(u)]
  ELSE [ok |-> FALSE, v |-> 0]

IntOfStripped(t) == IntOf(Sign(t), Unsign(t))

\* int(s): ok = FALSE stands for ValueError
ParseInt(s) == IntOfStripped(Strip(s))

NaN == [k |-> "nan", v |-> 0, e |-> 0]

None == [k |-> "none", v |-> 0, e |-> 0]

RECURSIVE Num(_, _)
\* the float v * 10^(-e), in lowest form
Num(v, e) ==
  IF v = 0 THEN [k |-> "num", v |-> 0, e |-> 0]
  ELSE IF v % 10 = 0 /\ v > 0 THEN Num(v \div 10, e - 1)
  ELSE IF (-v) % 10 = 0 /\ v < 0 THEN Num(-((-v) \div 10), e - 1)
  ELSE [k |-> "num", v |-> v, e |-> e]

\* the float of sign sg, integer digits ip, fraction digits fp and, when
\* hasE, the exponent of sign xs and digits xd
FloatOfFields(sg, ip, fp, hasE, xs, xd) ==
  IF /\ AllDigits(ip) /\ AllDigits(fp) /\ Len(ip) + Len(fp) > 0
     /\ hasE => (xd # << >> /\ AllDigits(xd))
  THEN Num(sg * DigitsVal(ip \o fp),
           Len(fp) - (IF hasE THEN xs * DigitsVal(xd) ELSE 0))
  ELSE None

\* ... of the mantissa mant and the exponent expo
FloatOfParts(sg, mant, dot, hasE, expo) ==
  FloatOfFields(sg, SubSeq(mant, 1, dot - 1), SubSeq(mant, dot + 1, Len(mant)),
                hasE, Sign(expo), Unsign(expo))

\* ... of the unsigned upper-case literal u, with its first "E" at ePos
FloatOfLiteral(sg, u, ePos) ==
  FloatOfParts(sg, SubSeq(u, 1, ePos - 1),
               FirstOf(SubSeq(u, 1, ePos - 1), "."),
               ePos <= Len(u), SubSeq(u, ePos + 1, Len(u)))

FloatOfUnsigned(sg, u) ==
  IF u = <<"N","A","N">> THEN NaN ELSE FloatOfLiteral(sg, u, FirstOf(u, "E"))

FloatOfStripped(t) == FloatOfUnsigned(Sign(t), Upper(Unsign(t)))

\* float(s) for decimal literals [sign] digits [. digits] [E [sign] digits]
\* and [sign] nan; None stands for ValueError
ParseFloat(s) == FloatOfStripped(Strip(s))

\* ------------------------------------------------------------------------
\* Configuration of the variants (fixed at construction)
\* ------------------------------------------------------------------------

\* MfListBudget.__init__
MfListBudget ==
  [lstkey     |-> <<"V","O","L","U","M","E","T","R","I","C"," ","B","U","D","G","E","T"," ","F","O","R"," ","E","N","T","I","R","E"," ","M","O","D","E","L">>,
   cumu_idxs  |-> <<22, 40>>, flux_idxs |-> <<63, 80>>,
   ts_idxs    |-> <<56, 61>>, sp_idxs   |-> <<76, 80>>,
   tssp_lines |-> 0]

\* SwrListBudget.__init__
SwrListBudget ==
  [lstkey     |-> <<"V","O","L","U","M","E","T","R","I","C"," ","S","U","R","F","A","C","E"," ","W","A","T","E","R"," ","B","U","D","G","E","T"," ","F","O","R"," ","E","N","T","I","R","E"," ","M","O","D","E","L">>,
   cumu_idxs  |-> <<25, 43>>, flux_idxs |-> <<66, 84>>,
   ts_idxs    |-> <<39, 46>>, sp_idxs   |-> <<62, 68>>,
   tssp_lines |-> 1]

\* ListTime.__init__ (timeunit = 'days', flow = True)
ListTime ==
  [lstkey     |-> <<"T","I","M","E"," ","S","U","M","M","A","R","Y"," ","A","T"," ","E","N","D">>,
   ts_idxs    |-> <<42, 47>>, sp_idxs |-> <<63, 69>>,
   tssp_lines |-> 0,
   time_line_idx |-> 20, time_idx |-> 3,
   null_entries  |-> <<NaN, NaN, NaN>>]

Variants == {"mf", "swr"}

Cfg(variant) == IF variant = "mf" THEN MfListBudget ELSE SwrListBudget

\* ------------------------------------------------------------------------
\* The report files of the model: what the simulator writes, laid out in
\* the fixed columns the variant's offsets read
\* ------------------------------------------------------------------------

\* the number of report blocks in a file
MaxBlocks == 3

\* n blanks
Spaces(n) == [i \in 1..n |-> " "]

\* right- and left-justified in a field of w columns
RJust(s, w) == Spaces(w - Len(s)) \o s

LJust(s, w) == s \o Spaces(w - Len(s))

RECURSIVE IntToChars(_)
IntToChars(n) ==
  IF n < 10 THEN <<Digits[n + 1]>>
  ELSE IntToChars(n \div 10) \o <<Digits[(n % 10) + 1]>>

\* a value printed with four decimals, as in "1.0000"
Fixed4(n) == IntToChars(n) \o <<".","0","0","0","0">>

Stars == <<"*","*","*","*","*">>

\* a line with the time step and the stress period in the columns ts_idxs
\* and sp_idxs, after the text prefix
NumbersLine(c, prefix, ts, sp) ==
  LJust(prefix, c.ts_idxs[1])
    \o RJust(ts, c.ts_idxs[2] - c.ts_idxs[1])
    \o LJust(<<","," ","S","T","R","E","S","S"," ","P","E","R","I","O","D">>, c.sp_idxs[1] - c.ts_idxs[2])
    \o RJust(sp, c.sp_idxs[2] - c.sp_idxs[1]) \o <<NL>>

\* the line(s) that open a budget block: the key phrase, and the numbers on
\* the key line when tssp_lines = 0, on the line after it when it is 1
HeaderLines(c, ts, sp) ==
  IF c.tssp_lines = 0
  THEN <<NumbersLine(c, Spaces(2) \o c.lstkey \o <<" ","A","T"," ","E","N","D"," ","O","F"," ","T","I","M","E"," ","S","T","E","P">>,
                     ts, sp)>>
  ELSE <<Spaces(2) \o c.lstkey \o <<NL>>,
         NumbersLine(c, Spaces(2) \o <<"A","T"," ","E","N","D"," ","O","F"," ","T","I","M","E"," ","S","T","E","P">>, ts, sp)>>

\* "label = cumulative      label = flux"
BudgetLine(c, label, cumu, flux) ==
  RJust(label, c.cumu_idxs[1] - 2) \o <<" ","=">> \o RJust(cumu, 17)
    \o RJust(label, c.flux_idxs[1] - 2 - (c.cumu_idxs[1] + 17)) \o <<" ","=">>
    \o RJust(flux, 17) \o <<NL>>

ColumnsLine ==
  <<" "," "," "," "," ","C","U","M","U","L","A","T","I","V","E"," ","V","O","L","U","M","E","S"," "," "," "," "," "," ","L","*","*","3"," "," "," "," "," "," "," ","R","A","T","E","S"," ","F","O","R"," ","T","H","I","S"," ","T","I","M","E"," ","S","T","E","P"," "," "," "," "," "," ","L","*","*","3","/","T","\n">>

InLine == <<" "," "," "," "," "," "," "," "," "," "," ","I","N",":"," "," "," "," "," "," "," "," "," "," "," "," "," "," "," "," "," "," "," "," "," "," "," "," "," "," "," "," "," "," "," "," "," "," "," "," "," "," ","I","N",":","\n">>

OutLine == <<" "," "," "," "," "," "," "," "," "," ","O","U","T",":"," "," "," "," "," "," "," "," "," "," "," "," "," "," "," "," "," "," "," "," "," "," "," "," "," "," "," "," "," "," "," "," "," "," "," "," "," ","O","U","T",":","\n">>

BannerLine == <<" "," "," "," "," "," "," "," "," "," "," "," "," "," "," "," "," "," "," "," "," "," "," "," ","U",".","S","."," ","G","E","O","L","O","G","I","C","A","L"," ","S","U","R","V","E","Y"," ","M","O","D","U","L","A","R"," ","M","O","D","E","L","\n">>

STORAGE == <<"S","T","O","R","A","G","E">>

WELLS == <<"W","E","L","L","S">>

DRAINS == <<"D","R","A","I","N","S">>

TOTAL_IN == <<"T","O","T","A","L"," ","I","N">>

TOTAL_OUT == <<"T","O","T","A","L"," ","O","U","T">>

IN_MINUS_OUT == <<"I","N"," ","-"," ","O","U","T">>

PERCENT_DISCREPANCY == <<"P","E","R","C","E","N","T"," ","D","I","S","C","R","E","P","A","N","C","Y">>

Entry(label, cumu, flux) == [label |-> label, cumu |-> cumu, flux |-> flux]

\* the kinds of report block: the budget part and the time summary part
BlockKinds ==
  {"good", "full", "nan", "badflux", "badcumu", "trunc", "badhdr",
   "notime", "nounit", "badtime", "again"}

\* the i-th block of a file, of kind k: time step i of stress period 1,
\* STORAGE in = i (cumulative 10 i), WELLS out = 2 i (cumulative 20 i);
\* the budget header of kind "again" prints time step 1 once more, its
\* time summary time step i
Block(k, i) ==
  [ts   |-> IF k = "badhdr" THEN Stars
            ELSE IF k = "again" THEN IntToChars(1) ELSE IntToChars(i),
   sp   |-> IntToChars(1),
   ins  |-> <<Entry(STORAGE,
                    IF k = "nan" THEN <<"N","a","N">>
                    ELSE IF k = "badcumu" THEN Stars ELSE Fixed4(10 * i),
                    Fixed4(i))>>
            \o (IF k = "full"
                THEN <<Entry(DRAINS, Fixed4(30 * i), Fixed4(3 * i)),
                       Entry(TOTAL_IN, Fixed4(40 * i), Fixed4(4 * i))>>
                ELSE << >>),
   outs |-> <<Entry(WELLS, Fixed4(20 * i),
                    IF k = "nan" THEN <<"1",".","#","Q","N","A","N">>
                    ELSE IF k = "badflux" THEN Stars ELSE Fixed4(2 * i))>>
            \o (IF k = "full"
                THEN <<Entry(TOTAL_OUT, Fixed4(20 * i), Fixed4(2 * i)),
                       Entry(IN_MINUS_OUT, Fixed4(20 * i), Fixed4(2 * i))>>
                ELSE << >>),
   sentinel |-> k # "trunc",
   time |-> CASE k = "notime"  -> "absent"
              [] k = "nounit"  -> "nounit"
              [] k = "badtime" -> "bad"
              [] OTHER         -> "days",
   days |-> i]

RECURSIVE EntryLines(_, _)
EntryLines(c, es) ==
  IF es = << >> THEN << >>
  ELSE <<BudgetLine(c, Head(es).label, Head(es).cumu, Head(es).flux)>>
         \o EntryLines(c, Tail(es))

BudgetLines(c, b) ==
  HeaderLines(c, b.ts, b.sp) \o <<ColumnsLine, InLine>>
    \o EntryLines(c, b.ins) \o <<OutLine>> \o EntryLines(c, b.outs)
    \o (IF b.sentinel
        THEN <<BudgetLine(c, PERCENT_DISCREPANCY, <<"0",".","0","0">>, <<"0",".","0","0">>)>>
        ELSE << >>)

\* one line of the time summary table: the label in columns 0..18 and the
\* five values (seconds, minutes, hours, days, years) in fields of 12
TimeLine(label, d, days) ==
  RJust(label, 19) \o RJust(IntToChars(86400 * d) \o <<".">>, 12)
    \o RJust(IntToChars(1440 * d) \o <<".","0">>, 12)
    \o RJust(IntToChars(24 * d) \o <<".","0","0","0">>, 12)
    \o RJust(days, 12) \o RJust(<<"2",".","7","3","7","8","5","E","-","0","3">>, 12) \o <<NL>>

\* the same line when the time unit is undefined: "label = value"
TimeLineNoUnit(label, d) ==
  RJust(label \o <<" ","=">>, 44) \o RJust(Fixed4(d), 15) \o <<NL>>

TimeKeyLine(b) ==
  Spaces(9) \o <<"T","I","M","E"," ","S","U","M","M","A","R","Y"," ","A","T"," ","E","N","D"," ","O","F"," ","T","I","M","E"," ","S","T","E","P">>
    \o RJust(IntToChars(b.days), 5) \o <<" ","I","N"," ","S","T","R","E","S","S"," ","P","E","R","I","O","D">>
    \o RJust(b.sp, 4) \o <<NL>>

TimeTable(b) ==
  IF b.time = "nounit"
  THEN <<TimeLineNoUnit(<<"T","I","M","E"," ","S","T","E","P"," ","L","E","N","G","T","H">>, 1),
         TimeLineNoUnit(<<"S","T","R","E","S","S"," ","P","E","R","I","O","D"," ","T","I","M","E">>, b.days),
         TimeLineNoUnit(<<"T","O","T","A","L"," ","S","I","M","U","L","A","T","I","O","N"," ","T","I","M","E">>, b.days)>>
  ELSE <<Spaces(21)
           \o <<"S","E","C","O","N","D","S"," "," "," "," "," ","M","I","N","U","T","E","S"," "," "," "," "," "," ","H","O","U","R","S"," "," "," "," "," "," "," ","D","A","Y","S"," "," "," "," "," "," "," "," ","Y","E","A","R","S","\n">>,
         Spaces(20)
           \o <<"-","-","-","-","-","-","-","-","-","-","-","-","-","-","-","-","-","-","-","-","-","-","-","-","-","-","-","-","-","-","-","-","-","-","-","-","-","-","-","-","-","-","-","-","-","-","-","-","-","-","-","-","-","-","-","-","-","-","-","\n">>,
         TimeLine(<<"T","I","M","E"," ","S","T","E","P"," ","L","E","N","G","T","H">>, 1, Fixed4(1)),
         TimeLine(<<"S","T","R","E","S","S"," ","P","E","R","I","O","D"," ","T","I","M","E">>, b.days, Fixed4(b.days)),
         TimeLine(<<"T","O","T","A","L"," ","T","I","M","E">>, b.days,
                  IF b.time = "bad" THEN Stars ELSE Fixed4(b.days))>>

TimeLines(b) ==
  IF b.time = "absent" THEN << >> ELSE <<TimeKeyLine(b)>> \o TimeTable(b)

\* the lines of block b: the budget and the time summary after it
BlockLines(c, b) == BudgetLines(c, b) \o TimeLines(b)

RECURSIVE BlocksLines(_, _, _)
BlocksLines(c, kinds, i) ==
  IF i > Len(kinds) THEN << >>
  ELSE BlockLines(c, Block(kinds[i], i)) \o BlocksLines(c, kinds, i + 1)

\* the lines of the report file rep = [variant, banner, kinds]
FileLines(rep) ==
  (IF rep.banner THEN <<BannerLine>> ELSE << >>)
    \o BlocksLines(Cfg(rep.variant), rep.kinds, 1)

RECURSIVE SeqsUpTo(_, _)
\* the sequences over S of length at most n
SeqsUpTo(S, n) ==
  IF n = 0 THEN {<< >>}
  ELSE LET shorter == SeqsUpTo(S, n - 1)
       IN  shorter \cup {Append(s, x) : s \in shorter, x \in S}

\* the number of blocks of a file that are not of the kind "good"
MaxOther == 1

Others(ks) == {i \in 1..Len(ks) : ks[i] # "good"}

Reports ==
  {[variant |-> v, banner |-> b, kinds |-> ks] :
     v \in Variants, b \in BOOLEAN,
     ks \in {s \in SeqsUpTo(BlockKinds, MaxBlocks) :
               Cardinality(Others(s)) <= MaxOther}}

\* ------------------------------------------------------------------------
\* The text stream
\* ------------------------------------------------------------------------

\* f.readline() at offset pos: the line, or '' at end of stream
ReadLine(lines, pos) == IF pos < Len(lines) THEN lines[pos + 1] ELSE << >>

\* f.tell() after that readline
Advance(lines, pos) == Min(pos + 1, Len(lines))

\* ------------------------------------------------------------------------
\* Block Locator: ListBudget._get_index, ListBudget._get_ts_sp
\* ------------------------------------------------------------------------

\* the pair _get_ts_sp returns; ok = FALSE stands for the ValueError of
\* either int()
TsSp(ts, sp) == [ok |-> ts.ok /\ sp.ok, ts |-> ts.v, sp |-> sp.v]

\* _get_ts_sp
GetTsSp(c, line) ==
  TsSp(ParseInt(Slice(line, c.ts_idxs[1], c.ts_idxs[2])),
       ParseInt(Slice(line, c.sp_idxs[1], c.sp_idxs[2])))

RECURSIVE GetIndexFrom(_, _, _, _, _), IndexBlock(_, _, _, _, _, _, _)
RECURSIVE GetIndexFromNext(_, _, _, _, _)
\* a variant of IndexBlock that keeps one entry per (ts, sp) pair
IndexBlockOnce(c, lines, seekpoint, idxs, maxentries, pos, r) ==
  IF ~r.ok THEN [idxs |-> idxs, pos |-> pos]
  ELSE IF \E i \in 1..Len(idxs) : idxs[i][1] = r.ts /\ idxs[i][2] = r.sp
  THEN GetIndexFrom(c, lines, pos, idxs, maxentries)
  ELSE IF maxentries # 0 /\ Len(idxs) + 1 >= maxentries
  THEN [idxs |-> Append(idxs, <<r.ts, r.sp, seekpoint>>), pos |-> pos]
  ELSE GetIndexFrom(c, lines, pos, Append(idxs, <<r.ts, r.sp, seekpoint>>),
                    maxentries)

\* a variant of IndexBlock that goes on scanning after a line it cannot
\* classify
IndexBlockSkipping(c, lines, seekpoint, idxs, maxentries, pos, r) ==
  IF ~r.ok THEN GetIndexFrom(c, lines, pos, idxs, maxentries)
  ELSE IF maxentries # 0 /\ Len(idxs) + 1 >= maxentries
  THEN [idxs |-> Append(idxs, <<r.ts, r.sp, seekpoint>>), pos |-> pos]
  ELSE GetIndexFrom(c, lines, pos, Append(idxs, <<r.ts, r.sp, seekpoint>>),
                    maxentries)

\* a variant of GetIndexFrom that classifies the line after the last line
\* it read
GetIndexFromNext(c, lines, pos, idxs, maxentries) ==
  IF ReadLine(lines, pos) = << >>
  THEN [idxs |-> idxs, pos |-> Advance(lines, pos)]
  ELSE IF Contains(ReadLine(lines, pos), c.lstkey)
  THEN IndexBlock(c, lines, pos, idxs, maxentries,
                  Min(pos + 2 + c.tssp_lines, Len(lines)),
                  GetTsSp(c, ReadLine(lines, pos + c.tssp_lines + 1)))
  ELSE GetIndexFromNext(c, lines, pos + 1, idxs, maxentries)

\* the while loop of _get_index with the stream at pos and idxs found so
\* far; maxentries = 0 stands for None.  Yields the index and the offset
\* the stream is left at.
GetIndexFrom(c, lines, pos, idxs, maxentries) ==
  IF ReadLine(lines, pos) = << >>
  THEN [idxs |-> idxs, pos |-> Advance(lines, pos)]
  ELSE IF Contains(ReadLine(lines, pos), c.lstkey)
  THEN IndexBlock(c, lines, pos, idxs, maxentries,
                  Min(pos + 1 + c.tssp_lines, Len(lines)),
                  GetTsSp(c, ReadLine(lines, pos + c.tssp_lines)))
  ELSE GetIndexFrom(c, lines, pos + 1, idxs, maxentries)

\* _get_index lines 159-169: the key phrase was read at seekpoint, the
\* stream is at pos and r is what _get_ts_sp gave
IndexBlock(c, lines, seekpoint, idxs, maxentries, pos, r) ==
  IF ~r.ok THEN [idxs |-> idxs, pos |-> pos]
  ELSE IF maxentries # 0 /\ Len(idxs) + 1 >= maxentries
  THEN [idxs |-> Append(idxs, <<r.ts, r.sp, seekpoint>>), pos |-> pos]
  ELSE GetIndexFrom(c, lines, pos, Append(idxs, <<r.ts, r.sp, seekpoint>>),
                    maxentries)

\* _get_index
GetIndex(c, lines, pos, maxentries) ==
  GetIndexFrom(c, lines, pos, << >>, maxentries)

\* ------------------------------------------------------------------------
\* Budget Block Extractor: ListBudget._parse_budget_line, ListBudget._get_sp
\* ------------------------------------------------------------------------

\* a variant of OrNaN that knows no placeholder: what float(s) gave, as is
OrNone(r, s) == r

\* a variant of OrNaN that takes every field float() rejects for the
\* placeholder
OrNaNAlways(r, s) == IF r # None THEN r ELSE NaN

\* the except branch of _parse_budget_line: r is what float(s) gave
OrNaN(r, s) ==
  IF r # None THEN r
  ELSE IF Contains(Upper(Strip(s)), <<"N","A","N">>) THEN NaN
  ELSE None

\* float(s), and on ValueError NaN when s holds the placeholder, else None
FloatOrNaN(s) == OrNaN(ParseFloat(s), s)

\* a variant of ParseBudgetLine that reads the flux from the cumulative
\* columns and the cumulative value from the flux columns
ParseBudgetLineSwapped(c, line) ==
  [entry |-> Strip(SplitFirst(Strip(line), "=")),
   cumu  |-> FloatOrNaN(Slice(line, c.flux_idxs[1], c.flux_idxs[2])),
   flux  |-> FloatOrNaN(Slice(line, c.cumu_idxs[1], c.cumu_idxs[2]))]

\* _parse_budget_line
ParseBudgetLine(c, line) ==
  [entry |-> Strip(SplitFirst(Strip(line), "=")),
   cumu  |-> FloatOrNaN(Slice(line, c.cumu_idxs[1], c.cumu_idxs[2])),
   flux  |-> FloatOrNaN(Slice(line, c.flux_idxs[1], c.flux_idxs[2]))]

\* a variant of BudgetKey that asks which side the line is on, not whether
\* the label contains the side tag
BudgetKeyBySide(tag, entry) ==
  IF tag = <<"I","N">>
  THEN IF Contains(Upper(entry), <<" ","-"," ">>)
       THEN Replace(entry, " ", << >>)
       ELSE Replace(entry, " ", <<"_">>)
  ELSE IF Contains(Upper(entry), <<"P","E","R","C","E","N","T"," ","D","I","S","C","R","E","P","A","N","C","Y">>)
  THEN Replace(entry, " ", <<"_">>)
  ELSE Replace(entry, " ", <<"_">>) \o <<"_">> \o tag

\* a variant of BudgetKey without the rule for " - "
BudgetKeyUnderscored(tag, entry) ==
  IF Contains(entry, Upper(tag)) \/ Contains(Upper(entry), <<"P","E","R","C","E","N","T"," ","D","I","S","C","R","E","P","A","N","C","Y">>)
  THEN Replace(entry, " ", <<"_">>)
  ELSE Replace(entry, " ", <<"_">>) \o <<"_">> \o tag

\* a variant of BudgetKey that never appends the side tag
BudgetKeyUntagged(tag, entry) ==
  IF Contains(entry, Upper(tag)) /\ Contains(Upper(entry), <<" ","-"," ">>)
  THEN Replace(entry, " ", << >>)
  ELSE Replace(entry, " ", <<"_">>)

\* the key of a budget line (lines 268-276 of _get_sp)
BudgetKey(tag, entry) ==
  IF Contains(entry, Upper(tag))
  THEN IF Contains(Upper(entry), <<" ","-"," ">>)
       THEN Replace(entry, " ", << >>)
       ELSE Replace(entry, " ", <<"_">>)
  ELSE IF Contains(Upper(entry), <<"P","E","R","C","E","N","T"," ","D","I","S","C","R","E","P","A","N","C","Y">>)
  THEN Replace(entry, " ", <<"_">>)
  ELSE Replace(entry, " ", <<"_">>) \o <<"_">> \o tag

\* d[key] = val
DictSet(d, key, val) ==
  [k \in DOMAIN d \cup {key} |-> IF k = key THEN val ELSE d[k]]

TagIN == <<"I","N">>

TagOUT == <<"O","U","T">>

RECURSIVE SeekBudgetNext(_, _)
\* a variant of SeekBudget that takes the second line with two '=' for the
\* first budget line
SeekBudgetNext(lines, pos) ==
  IF pos >= Len(lines) THEN Len(lines)
  ELSE IF CountChar(lines[pos + 1], "=") = 2 THEN Min(pos + 1, Len(lines))
  ELSE SeekBudgetNext(lines, pos + 1)

RECURSIVE SeekBudget(_, _)
\* the first loop of _get_sp: the offset of the first line at or after pos
\* with exactly two '=', or Len(lines) when the stream ends first
SeekBudget(lines, pos) ==
  IF pos >= Len(lines) THEN Len(lines)
  ELSE IF CountChar(lines[pos + 1], "=") = 2 THEN pos
  ELSE SeekBudget(lines, pos + 1)

RECURSIVE ReadBudget(_, _, _, _, _, _, _, _, _)
\* the second loop of _get_sp: line is the line in hand and p what
\* _parse_budget_line gives for it, pos the offset the stream is at.
\* Yields what _get_sp returns (<<incdict, cumdict>>, or null_entries) and
\* the offset the stream is left at.
ReadBudget(c, lines, null, line, p, pos, tag, incd, cumd) ==
  IF line = << >> THEN [ret |-> null, pos |-> pos]
  ELSE IF CountChar(line, "=") = 2
  THEN IF p.flux = None \/ p.cumu = None
       THEN [ret |-> null, pos |-> pos]
       ELSE IF Upper(p.entry) = <<"P","E","R","C","E","N","T"," ","D","I","S","C","R","E","P","A","N","C","Y">>
       THEN [ret |-> <<DictSet(incd, BudgetKey(tag, p.entry), p.flux),
                       DictSet(cumd, BudgetKey(tag, p.entry), p.cumu)>>,
             pos |-> Advance(lines, pos)]
       ELSE ReadBudget(c, lines, null, ReadLine(lines, pos),
                       ParseBudgetLine(c, ReadLine(lines, pos)),
                       Advance(lines, pos), tag,
                       DictSet(incd, BudgetKey(tag, p.entry), p.flux),
                       DictSet(cumd, BudgetKey(tag, p.entry), p.cumu))
  ELSE ReadBudget(c, lines, null, ReadLine(lines, pos),
                  ParseBudgetLine(c, ReadLine(lines, pos)),
                  Advance(lines, pos),
                  IF Contains(Upper(line), <<"O","U","T",":">>) THEN TagOUT ELSE tag,
                  incd, cumd)

\* _get_sp from the first budget line on, at offset start
GetSpAt(c, lines, null, start) ==
  IF start >= Len(lines)
  THEN [ret |-> null, pos |-> Len(lines)]
  ELSE ReadBudget(c, lines, null, lines[start + 1],
                  ParseBudgetLine(c, lines[start + 1]), start + 1,
                  TagIN, << >>, << >>)

\* _get_sp(ts, sp, seekpoint): ts and sp are only printed
GetSp(c, lines, null, seekpoint) ==
  GetSpAt(c, lines, null, SeekBudget(lines, seekpoint))

\* ------------------------------------------------------------------------
\* Time Block Extractor: ListTime._parse_time_line, ListTime._get_sp
\* ------------------------------------------------------------------------

\* float(raw[idx]); None stands for the IndexError or ValueError caught
TokenFloat(raw, idx) ==
  IF idx < Len(raw) THEN ParseFloat(raw[idx + 1]) ELSE None

\* _parse_time_line lines 495-505: raw is line[time_line_idx:].split()
TimeOf(c, line, raw) ==
  IF TokenFloat(raw, 0) # None
  THEN TokenFloat(raw, c.time_idx)
  ELSE TokenFloat(SplitWs(SliceFrom(line, 45)), 0)

\* _parse_time_line: None stands for the None it returns
ParseTimeLine(c, line) ==
  IF line = << >> THEN None
  ELSE TimeOf(c, line, SplitWs(SliceFrom(line, c.time_line_idx)))

UnitsHeader == <<"S","E","C","O","N","D","S"," "," "," "," "," ","M","I","N","U","T","E","S"," "," "," "," "," "," ","H","O","U","R","S"," "," "," "," "," "," "," ","D","A","Y","S"," "," "," "," "," "," "," "," ","Y","E","A","R","S">>

Dashes == <<"-","-","-","-","-","-","-","-","-","-","-","-","-","-","-","-","-","-","-","-","-","-","-","-","-","-","-","-","-","-","-","-","-","-","-","-","-","-","-","-","-","-","-","-","-","-","-","-","-","-","-","-","-","-","-","-","-","-","-">>

RECURSIVE SeekTimes(_, _, _)
\* the header loop of ListTime._get_sp: ihead lines were read before pos.
\* Yields the offset of the line to parse as the step length; eof when the
\* stream ended first.
SeekTimes(lines, pos, ihead) ==
  IF ReadLine(lines, pos) = << >> THEN [eof |-> TRUE, pos |-> pos]
  ELSE IF ihead + 1 = 2 /\ ~Contains(ReadLine(lines, pos), UnitsHeader)
  THEN [eof |-> FALSE, pos |-> pos]
  ELSE IF Contains(ReadLine(lines, pos), Dashes)
  THEN [eof |-> FALSE, pos |-> pos + 1]
  ELSE SeekTimes(lines, pos + 1, ihead + 1)

\* ListTime._get_sp lines 473-487: the three values, or null_entries
TimesOf(c, eof, tslen, sptim, totim) ==
  IF eof \/ tslen = None \/ sptim = None \/ totim = None
  THEN c.null_entries
  ELSE <<tslen, sptim, totim>>

\* ... with the step length on the line at offset h.pos
TimesAt(c, lines, h) ==
  TimesOf(c, h.eof, ParseTimeLine(c, ReadLine(lines, h.pos)),
          ParseTimeLine(c, ReadLine(lines, h.pos + 1)),
          ParseTimeLine(c, ReadLine(lines, h.pos + 2)))

\* ListTime._get_sp: <<tslen, sptim, totim>>, or null_entries
GetSpTime(c, lines, seekpoint) ==
  TimesAt(c, lines, SeekTimes(lines, seekpoint, 0))

\* ------------------------------------------------------------------------
\* Key construction on its own: the inputs of BudgetKey
\* ------------------------------------------------------------------------

\* the number of words in a label
MaxWords == 2

Words ==
  {STORAGE, WELLS, DRAINS, <<"T","O","T","A","L">>, <<"I","N">>, <<"O","U","T">>, <<"U","N","S","A","T","U","R","A","T","E","D">>,
   <<"P","E","R","C","E","N","T"," ","D","I","S","C","R","E","P","A","N","C","Y">>}

\* the labels one word longer than those of S, joined by " " or by " - "
Longer(S) == {l \o sep \o w : l \in S, sep \in {<<" ">>, <<" ","-"," ">>}, w \in Words}

Grown(S) == S \cup Longer(S)

RECURSIVE LabelsOf(_)
\* the labels of at most n words
LabelsOf(n) == IF n = 1 THEN Words ELSE Grown(LabelsOf(n - 1))

Labels == LabelsOf(MaxWords)

\* ------------------------------------------------------------------------
\* State
\* ------------------------------------------------------------------------

VARIABLES
  report,        \* the report file the instance was opened on
  f_pos,         \* self.f: the offset the stream is at
  idx_map,       \* self.idx_map: <<ts, sp, seekpoint>> per block
  entries,       \* self.entries: the schema (the keys of the first block)
  null_entries,  \* self.null_entries
  incdict,       \* _load's incdict: key -> values so far
  cumdict,       \* _load's cumdict
  row,           \* _load's position in its loop over idx_map
  totim,         \* _load's totim: ListTime(...).get_times()
  inc,           \* self.inc
  cum,           \* self.cum
  pc,            \* where _load is
  err,           \* the message of the exception _load raised
  keyline,       \* a budget line on its own: side tag, label, key
  probe,         \* two calls of _get_sp at one offset: what each returned
  out            \* what the last call of an accessor returned or raised

vars ==
  <<report, f_pos, idx_map, entries, null_entries, incdict, cumdict, row,
    totim, inc, cum, pc, err, keyline, probe, out>>

loadvars ==
  <<report, f_pos, idx_map, entries, null_entries, incdict, cumdict, row,
    totim, inc, cum, pc, err, probe, out>>

\* self.inc and self.cum before _load sets them
NoTable ==
  [totim |-> << >>, time_step |-> << >>, stress_period |-> << >>,
   cols |-> << >>]

NoKeyLine == [tag |-> TagIN, entry |-> << >>, key |-> << >>, keyed |-> FALSE]

NoProbe ==
  [n |-> 0, off |-> 0, first |-> << >>, firstNull |-> << >>,
   again |-> << >>, againNull |-> << >>]

NoOut == [call |-> "", arg |-> "", raised |-> "", val |-> << >>]

cfg == Cfg(report.variant)

\* the lines of the file the instance was opened on
txt == FileLines(report)

\* the fields set by MfListBudget.__init__ / SwrListBudget.__init__ before
\* the call of _load
Constructed ==
  /\ f_pos = 0
  /\ idx_map = << >>
  /\ entries = {}
  /\ null_entries = << >>
  /\ incdict = << >>
  /\ cumdict = << >>
  /\ row = 0
  /\ totim = << >>
  /\ inc = NoTable
  /\ cum = NoTable
  /\ pc = "constructed"
  /\ err = ""

Init ==
  /\ report \in Reports
  /\ Constructed
  /\ keyline = NoKeyLine
  /\ probe = NoProbe
  /\ out = NoOut

\* ------------------------------------------------------------------------
\* Series Assembler: ListBudget._load, step by step
\* ------------------------------------------------------------------------

Raise(msg) ==
  /\ pc' = "raised"
  /\ err' = msg

\* _build_index: r is what _get_index gave
Indexed(r) ==
  /\ idx_map' = r.idxs
  /\ f_pos' = r.pos

\* _load line 202: self._build_index(maxentries), maxentries = None
BuildIndex ==
  /\ pc = "constructed"
  /\ Indexed(GetIndex(cfg, txt, f_pos, 0))
  /\ pc' = "indexed"
  /\ UNCHANGED <<report, entries, null_entries, incdict, cumdict, row, totim,
                 inc, cum, err, keyline, probe, out>>

\* a variant of SchemaFrom that goes on to the rows with an empty schema
\* when the first block gave no budget
SchemaFromLenient(r) ==
  /\ f_pos' = r.pos
  /\ entries' = IF Len(r.ret) # 2 THEN {} ELSE DOMAIN r.ret[1]
  /\ null_entries' = << << >>, << >> >>
  /\ incdict' = [k \in entries' |-> << >>]
  /\ cumdict' = [k \in entries' |-> << >>]
  /\ row' = 1
  /\ pc' = "rows"
  /\ err' = err

\* what _set_entries does once both checks passed: r is what _get_sp gave
\* for the first index entry
SchemaFrom(r) ==
  /\ f_pos' = r.pos
  /\ IF Len(r.ret) # 2
     THEN /\ Raise("unable to read budget information from first entry in list file")
          /\ UNCHANGED <<entries, null_entries, incdict, cumdict, row>>
     ELSE /\ entries' = DOMAIN r.ret[1]
          /\ null_entries' = <<[k \in DOMAIN r.ret[1] |-> NaN],
                               [k \in DOMAIN r.ret[1] |-> NaN]>>
          /\ incdict' = [k \in DOMAIN r.ret[1] |-> << >>]
          /\ cumdict' = [k \in DOMAIN r.ret[1] |-> << >>]
          /\ row' = 1
          /\ pc' = "rows"
          /\ err' = err

\* a variant of SetEntries without the check of idx_map: idx_map[0] on the
\* empty index is an IndexError
SetEntriesUnchecked ==
  /\ pc = "indexed"
  /\ IF Cardinality(entries) > 0
     THEN /\ Raise("entries already set")
          /\ UNCHANGED <<f_pos, entries, null_entries, incdict, cumdict, row>>
     ELSE IF idx_map = << >>
     THEN /\ Raise("IndexError")
          /\ UNCHANGED <<f_pos, entries, null_entries, incdict, cumdict, row>>
     ELSE SchemaFrom(GetSp(cfg, txt, null_entries, idx_map[1][3]))
  /\ UNCHANGED <<report, idx_map, totim, inc, cum, keyline, probe, out>>

\* a variant of SetEntries that sets the schema again when it is set
SetEntriesAgain ==
  /\ pc = "indexed"
  /\ IF idx_map = << >>
     THEN /\ Raise("must call build_index before call set_entries")
          /\ UNCHANGED <<f_pos, entries, null_entries, incdict, cumdict, row>>
     ELSE SchemaFrom(GetSp(cfg, txt, null_entries, idx_map[1][3]))
  /\ UNCHANGED <<report, idx_map, totim, inc, cum, keyline, probe, out>>

\* _load line 203: incdict, cumdict = self._set_entries()
SetEntries ==
  /\ pc = "indexed"
  /\ IF Cardinality(entries) > 0
     THEN /\ Raise("entries already set")
          /\ UNCHANGED <<f_pos, entries, null_entries, incdict, cumdict, row>>
     ELSE IF idx_map = << >>
     THEN /\ Raise("must call build_index before call set_entries")
          /\ UNCHANGED <<f_pos, entries, null_entries, incdict, cumdict, row>>
     ELSE SchemaFrom(GetSp(cfg, txt, null_entries, idx_map[1][3]))
  /\ UNCHANGED <<report, idx_map, totim, inc, cum, keyline, probe, out>>

\* a variant of AppendRow that appends to incdict only
AppendRowIncOnly(r) ==
  /\ f_pos' = r.pos
  /\ IF entries \subseteq DOMAIN r.ret[1]
     THEN /\ incdict' = [k \in entries |-> Append(incdict[k], r.ret[1][k])]
          /\ row' = row + 1
          /\ UNCHANGED <<cumdict, pc, err>>
     ELSE /\ Raise("KeyError")
          /\ UNCHANGED <<incdict, cumdict, row>>

\* the body of the loop of _load lines 204-208 for the block r was read
\* from: KeyError when the block lacks a key of the schema
AppendRow(r) ==
  /\ f_pos' = r.pos
  /\ IF entries \subseteq DOMAIN r.ret[1]
     THEN /\ incdict' = [k \in entries |-> Append(incdict[k], r.ret[1][k])]
          /\ cumdict' = [k \in entries |-> Append(cumdict[k], r.ret[2][k])]
          /\ row' = row + 1
          /\ UNCHANGED <<pc, err>>
     ELSE /\ Raise("KeyError")
          /\ UNCHANGED <<incdict, cumdict, row>>

\* _load lines 204-208, one iteration
LoadRow ==
  /\ pc = "rows"
  /\ row <= Len(idx_map)
  /\ AppendRow(GetSp(cfg, txt, null_entries, idx_map[row][3]))
  /\ UNCHANGED <<report, idx_map, entries, null_entries, totim, inc, cum,
                 keyline, probe, out>>

\* a variant of TotimOf that returns the times last block first
TotimOfBackwards(lines, idx) ==
  [i \in 1..Len(idx) |->
     GetSpTime(ListTime, lines, idx[Len(idx) + 1 - i][3])[3]]

\* ListTime(file_name, start=None).get_times(): ListTime.__init__ opens the
\* file again and runs ListTime._load; get_times returns self.totim
TotimOf(lines, idx) ==
  [i \in 1..Len(idx) |-> GetSpTime(ListTime, lines, idx[i][3])[3]]

ListTimeTimes(lines) == TotimOf(lines, GetIndex(ListTime, lines, 0, 0).idxs)

\* _load lines 214-215
LoadTimes ==
  /\ pc = "rows"
  /\ row > Len(idx_map)
  /\ totim' = ListTimeTimes(txt)
  /\ pc' = "timed"
  /\ UNCHANGED <<report, f_pos, idx_map, entries, null_entries, incdict,
                 cumdict, row, inc, cum, err, keyline, probe, out>>

\* a variant of Broadcast that never fails: it cuts the sequence to n
\* values or fills the rows it has no value for with not-a-number
BroadcastAny(s, n) ==
  [ok |-> TRUE, col |-> [i \in 1..n |-> IF i <= Len(s) THEN s[i] ELSE NaN]]

\* numpy's assignment of a sequence to a column of n rows: the sequence
\* itself, or its one value in every row; ok = FALSE stands for ValueError
Broadcast(s, n) ==
  IF Len(s) = n THEN [ok |-> TRUE, col |-> s]
  ELSE IF Len(s) = 1 THEN [ok |-> TRUE, col |-> [i \in 1..n |-> s[1]]]
  ELSE [ok |-> FALSE, col |-> << >>]

\* the recarray _load builds from the column dictionary d (lines 218-230)
Recarray(d, tt) ==
  [totim         |-> tt,
   time_step     |-> [i \in 1..Len(idx_map) |-> idx_map[i][1]],
   stress_period |-> [i \in 1..Len(idx_map) |-> idx_map[i][2]],
   cols          |-> d]

\* _load lines 218-230
TablesFrom(tt) ==
  IF tt.ok
  THEN /\ inc' = Recarray(incdict, tt.col)
       /\ cum' = Recarray(cumdict, tt.col)
       /\ pc' = "loaded"
       /\ err' = err
  ELSE /\ Raise("ValueError")
       /\ UNCHANGED <<inc, cum>>

BuildTables ==
  /\ pc = "timed"
  /\ TablesFrom(Broadcast(totim, Len(idx_map)))
  /\ UNCHANGED <<report, f_pos, idx_map, entries, null_entries, incdict,
                 cumdict, row, totim, keyline, probe, out>>

\* ------------------------------------------------------------------------
\* Accessors of a loaded instance
\* ------------------------------------------------------------------------

\* get_kstpkper(): the pairs zipped from the columns time_step and
\* stress_period of self.inc.  The accessors leave the instance as it is:
\* out records the first call made on it.
GetKstpkper ==
  /\ pc = "loaded"
  /\ out = NoOut
  /\ out' = [call |-> "get_kstpkper", arg |-> "", raised |-> "",
             val |-> [i \in 1..Len(inc.time_step) |->
                        <<inc.time_step[i], inc.stress_period[i]>>]]
  /\ UNCHANGED <<report, f_pos, idx_map, entries, null_entries, incdict,
                 cumdict, row, totim, inc, cum, pc, err, keyline, probe>>

\* the values of start_datetime: the default, and None
StartDatetimes == {"1-1-1970", "None"}

\* ListTime(file_name, start = pd.to_datetime(start_datetime)): __init__
\* runs ListTime._load, whose line 446 calls self.cast_totim() when start
\* is not None; the class has no attribute of that name
ListTimeNew(lines, start_datetime) ==
  IF start_datetime # "None"
  THEN [raised |-> "AttributeError", totim |-> << >>]
  ELSE [raised |-> "", totim |-> ListTimeTimes(lines)]

\* get_dataframes lines 133-139 with the ListTime instance lt:
\* pd.DataFrame(recarray, index = idx) raises ValueError unless idx is as
\* long as the recarray; .loc[:, self.entries] keeps the budget columns
Dataframes(start_datetime, lt) ==
  IF lt.raised # ""
  THEN [call |-> "get_dataframes", arg |-> start_datetime,
        raised |-> lt.raised, val |-> << >>]
  ELSE IF Len(lt.totim) # Len(inc.time_step)
  THEN [call |-> "get_dataframes", arg |-> start_datetime,
        raised |-> "ValueError", val |-> << >>]
  ELSE [call |-> "get_dataframes", arg |-> start_datetime, raised |-> "",
        val |-> <<[index |-> lt.totim, cols |-> inc.cols],
                  [index |-> lt.totim, cols |-> cum.cols]>>]

\* get_dataframes(start_datetime), with pandas installed
GetDataframes ==
  /\ pc = "loaded"
  /\ out = NoOut
  /\ \E s \in StartDatetimes : out' = Dataframes(s, ListTimeNew(txt, s))
  /\ UNCHANGED <<report, f_pos, idx_map, entries, null_entries, incdict,
                 cumdict, row, totim, inc, cum, pc, err, keyline, probe>>

Next ==
  \/ BuildIndex
  \/ SetEntries
  \/ LoadRow
  \/ LoadTimes
  \/ BuildTables
  \/ GetKstpkper
  \/ GetDataframes

Spec == Init /\ [][Next]_vars

\* ------------------------------------------------------------------------
\* The key of one budget line, for every side tag and label
\* ------------------------------------------------------------------------

KeyInit ==
  /\ report = [variant |-> "mf", banner |-> FALSE, kinds |-> << >>]
  /\ Constructed
  /\ probe = NoProbe
  /\ out = NoOut
  /\ \E t \in {TagIN, TagOUT}, l \in Labels :
       keyline = [tag |-> t, entry |-> l, key |-> << >>, keyed |-> FALSE]

\* _get_sp lines 268-276 on the line in hand
MakeKey ==
  /\ ~keyline.keyed
  /\ keyline' = [keyline EXCEPT !.key = BudgetKey(keyline.tag, keyline.entry),
                                !.keyed = TRUE]
  /\ UNCHANGED loadvars

KeyNext == MakeKey

KeySpec == KeyInit /\ [][KeyNext]_vars

\* ------------------------------------------------------------------------
\* The methods of an instance called one by one: _build_index,
\* _set_entries, and _get_sp twice at one offset
\* ------------------------------------------------------------------------

\* the offsets _get_sp is called at: the start of every line that holds
\* the key phrase
ProbeOffsets(lines, key) ==
  {i - 1 : i \in {j \in 1..Len(lines) : Contains(lines[j], key)}}

\* the record of the call of _get_sp at off that gave r: the first call is
\* kept with self.null_entries as it was then, a later call at the same
\* offset beside it; a call at another offset moves the stream only
Probed(off, r) ==
  /\ f_pos' = r.pos
  /\ probe' =
       IF probe.n = 0
       THEN [n |-> 1, off |-> off, first |-> r.ret, firstNull |-> null_entries,
             again |-> << >>, againNull |-> << >>]
       ELSE IF off = probe.off
       THEN [probe EXCEPT !.n = 2, !.again = r.ret, !.againNull = null_entries]
       ELSE probe

\* a variant of ProbeAt that does not seek: it reads on from where the
\* stream is
ProbeAtNoSeek(c, lines, off) ==
  Probed(off, GetSpAt(c, lines, null_entries, SeekBudget(lines, f_pos)))

\* self._get_sp(ts, sp, off) on the file of lines
ProbeAt(c, lines, off) == Probed(off, GetSp(c, lines, null_entries, off))

\* a call of _get_sp at one of the offsets of the file
ProbeAny(c, lines) ==
  \E off \in ProbeOffsets(lines, c.lstkey) : ProbeAt(c, lines, off)

\* a call of _get_sp on the instance
ProbeGetSp ==
  /\ pc \in {"constructed", "indexed", "rows"}
  /\ probe.n < 2
  /\ ProbeAny(cfg, txt)
  /\ UNCHANGED <<report, idx_map, entries, null_entries, incdict, cumdict,
                 row, totim, inc, cum, pc, err, keyline, out>>

\* the number of blocks in a file the methods are called on one by one
MaxProbed == 2

\* the files the methods are called on: MfListBudget on blocks that are
\* complete, lack the sentinel, or have a field or a header that does not
\* parse, each block with its time summary, after the banner
ProbeReports ==
  {r \in Reports :
     /\ r.banner /\ r.variant = "mf"
     /\ Len(r.kinds) <= MaxProbed
     /\ \A i \in 1..Len(r.kinds) :
          r.kinds[i] \in {"good", "full", "badflux", "trunc", "badhdr"}}

ProbeInit ==
  /\ report \in ProbeReports
  /\ Constructed
  /\ keyline = NoKeyLine
  /\ probe = NoProbe
  /\ out = NoOut

ProbeNext ==
  \/ BuildIndex
  \/ SetEntries
  \/ ProbeGetSp

ProbeSpec == ProbeInit /\ [][ProbeNext]_vars

\* ------------------------------------------------------------------------
\* A ListTime instance: constructed on the file, then _get_sp called at an
\* offset of it
\* ------------------------------------------------------------------------

\* the lines ListTime._get_sp reads after the step-length line at offset
\* pos: the next one when the step length parses, and one more when the
\* period time parses too
TimesReads(c, lines, pos) ==
  IF ParseTimeLine(c, ReadLine(lines, pos)) = None THEN 0
  ELSE IF ParseTimeLine(c, ReadLine(lines, pos + 1)) = None THEN 1
  ELSE 2

\* the offset ListTime._get_sp leaves the stream at: the end of the stream
\* when the header loop met it, otherwise after the last line it read
TimesEnd(c, lines, h) ==
  IF h.eof THEN Len(lines)
  ELSE Min(h.pos + 1 + TimesReads(c, lines, h.pos), Len(lines))

\* the files a ListTime instance is opened on: budget blocks with a time
\* summary in days, with undefined unit, with a total that does not parse,
\* or without time summary
TimeReports ==
  {r \in Reports :
     /\ r.variant = "mf"
     /\ Len(r.kinds) <= MaxProbed
     /\ \A i \in 1..Len(r.kinds) :
          r.kinds[i] \in {"good", "notime", "nounit", "badtime"}}

\* ListTime.__init__ and ListTime._load with start = None: r is what
\* _get_index gave
TimeLoaded(lines, r) ==
  /\ idx_map = r.idxs
  /\ totim = TotimOf(lines, r.idxs)
  /\ f_pos = IF r.idxs = << >> THEN r.pos
             ELSE TimesEnd(ListTime, lines,
                           SeekTimes(lines, r.idxs[Len(r.idxs)][3], 0))

TimeInit ==
  /\ report \in TimeReports
  /\ TimeLoaded(txt, GetIndex(ListTime, txt, 0, 0))
  /\ entries = {}
  /\ null_entries = ListTime.null_entries
  /\ incdict = << >>
  /\ cumdict = << >>
  /\ row = 0
  /\ inc = NoTable
  /\ cum = NoTable
  /\ pc = "loaded"
  /\ err = ""
  /\ keyline = NoKeyLine
  /\ probe = NoProbe
  /\ out = NoOut

\* a variant of TimeCalled that returns the values parsed so far when a
\* later line does not parse
TimeCalledPartial(lines, off, h) ==
  /\ out' = [call |-> "ListTime._get_sp", arg |-> off, raised |-> "",
             val |-> [i \in 1..3 |->
                        IF h.eof \/ ParseTimeLine(ListTime, ReadLine(lines, h.pos + i - 1)) = None
                        THEN NaN
                        ELSE ParseTimeLine(ListTime, ReadLine(lines, h.pos + i - 1))]]
  /\ f_pos' = TimesEnd(ListTime, lines, h)

\* self._get_sp(ts, sp, off) of the ListTime instance, h being where its
\* header loop stopped
TimeCalled(lines, off, h) ==
  /\ out' = [call |-> "ListTime._get_sp", arg |-> off, raised |-> "",
             val |-> TimesAt(ListTime, lines, h)]
  /\ f_pos' = TimesEnd(ListTime, lines, h)

\* a call of _get_sp at an offset of the file; out records the first call
TimeGetSp ==
  /\ out = NoOut
  /\ \E off \in 0..Len(txt) : TimeCalled(txt, off, SeekTimes(txt, off, 0))
  /\ UNCHANGED <<report, idx_map, entries, null_entries, incdict, cumdict,
                 row, totim, inc, cum, pc, err, keyline, probe>>

TimeNext == TimeGetSp

TimeSpec == TimeInit /\ [][TimeNext]_vars

\* ------------------------------------------------------------------------
\* _load called again on the instance
\* ------------------------------------------------------------------------

\* a further call of _load after the last one returned or raised; out
\* keeps the schema and the tables as they were at the first such call
LoadAgain ==
  /\ pc \in {"loaded", "raised"}
  /\ pc' = "constructed"
  /\ err' = ""
  /\ out' = IF out = NoOut
            THEN [call |-> "_load", arg |-> "", raised |-> "",
                  val |-> <<entries, inc, cum>>]
            ELSE out
  /\ UNCHANGED <<report, f_pos, idx_map, entries, null_entries, incdict,
                 cumdict, row, totim, inc, cum, keyline, probe>>

ReloadNext ==
  \/ BuildIndex
  \/ SetEntries
  \/ LoadRow
  \/ LoadTimes
  \/ BuildTables
  \/ LoadAgain

ReloadSpec == ProbeInit /\ [][ReloadNext]_vars

\* ------------------------------------------------------------------------
\* The loops of _get_index, ListBudget._get_sp and ListTime._get_sp, one
\* iteration at a time.  During a call idx_map is idxs, incdict and
\* cumdict are the mappings being built, keyline holds tag, entry and key,
\* row counts the calls of readline, out.arg is the offset the call
\* started at, and probe holds the lines of the file with what the parsers
\* give for each of them.
\* ------------------------------------------------------------------------

\* the number of blocks in a file the loops are stepped through
MaxLooped == 1

LoopKinds == {"good", "trunc", "badflux", "badhdr", "nounit", "badtime"}

LoopReports ==
  {[variant |-> v, banner |-> TRUE, kinds |-> ks] :
     v \in Variants, ks \in SeqsUpTo(LoopKinds, MaxLooped)}

Calls == {"_get_index", "_get_sp", "ListTime._get_sp"}

\* the call is entered: _get_index reads on from the offset the stream is
\* at, the two _get_sp seek to it
Entered(call, off) ==
  /\ f_pos = off
  /\ out = [call |-> call, arg |-> off, raised |-> "", val |-> << >>]
  /\ pc = CASE call = "_get_index" -> "index"
            [] call = "_get_sp"    -> "seek"
            [] OTHER               -> "header"
  /\ null_entries = IF call = "ListTime._get_sp"
                    THEN ListTime.null_entries ELSE << >>

EnteredAny(lines) ==
  \E call \in Calls, off \in 0..Len(lines) : Entered(call, off)

\* the lines of the file and, by offset, what _get_ts_sp and
\* _parse_time_line give for the line there ('' past the end) and, by line
\* number, what _parse_budget_line gives
LineTable(c, lines) ==
  [lines  |-> lines,
   tssp   |-> [i \in 0..(Len(lines) + 1) |-> GetTsSp(c, ReadLine(lines, i))],
   budget |-> [i \in 1..Len(lines) |-> ParseBudgetLine(c, lines[i])],
   time   |-> [i \in 0..(Len(lines) + 2) |->
                 ParseTimeLine(ListTime, ReadLine(lines, i))]]

LoopInit ==
  /\ report \in LoopReports
  /\ probe = LineTable(cfg, txt)
  /\ EnteredAny(probe.lines)
  /\ idx_map = << >>
  /\ entries = {}
  /\ incdict = << >>
  /\ cumdict = << >>
  /\ row = 0
  /\ totim = << >>
  /\ inc = NoTable
  /\ cum = NoTable
  /\ err = ""
  /\ keyline = [tag |-> TagIN, entry |-> << >>, key |-> << >>, keyed |-> FALSE]

\* a variant of Read that leaves the stream where it is
ReadStuck(lines, n) ==
  /\ f_pos' = f_pos
  /\ row' = row

\* n calls of self.f.readline()
Read(lines, n) ==
  /\ f_pos' = Min(f_pos + n, Len(lines))
  /\ row' = row + n

\* return v
Return(v) ==
  /\ pc' = "returned"
  /\ out' = [out EXCEPT !.val = v]

\* _get_index lines 152-169, one iteration: line is what readline gave at
\* seekpoint f_pos, r what _get_ts_sp gives for the line to classify
IndexIter(c, lines, line, r) ==
  IF line = << >>
  THEN Read(lines, 1) /\ Return(idx_map) /\ UNCHANGED idx_map
  ELSE IF ~Contains(line, c.lstkey)
  THEN Read(lines, 1) /\ UNCHANGED <<pc, out, idx_map>>
  ELSE /\ Read(lines, 1 + c.tssp_lines)
       /\ IF r.ok
          THEN /\ idx_map' = Append(idx_map, <<r.ts, r.sp, f_pos>>)
               /\ UNCHANGED <<pc, out>>
          ELSE Return(idx_map) /\ UNCHANGED idx_map

IndexAt(c, t) ==
  IndexIter(c, t.lines, ReadLine(t.lines, f_pos), t.tssp[f_pos + c.tssp_lines])

IndexStep ==
  /\ pc = "index"
  /\ IndexAt(cfg, probe)
  /\ UNCHANGED <<report, entries, null_entries, incdict, cumdict, totim, inc,
                 cum, err, keyline, probe>>

\* ListBudget._get_sp lines 237-246, one iteration of the first loop
SeekIter(lines, line) ==
  /\ Read(lines, 1)
  /\ IF line = << >> THEN Return(null_entries)
     ELSE IF CountChar(line, "=") = 2 THEN pc' = "budget" /\ out' = out
     ELSE UNCHANGED <<pc, out>>

SeekStep ==
  /\ pc = "seek"
  /\ SeekIter(probe.lines, ReadLine(probe.lines, f_pos))
  /\ UNCHANGED <<report, idx_map, entries, null_entries, incdict, cumdict,
                 totim, inc, cum, err, keyline, probe>>

\* lines 268-284: the line in hand gave p and key; the next line is read
\* and the loop ends after the PERCENT DISCREPANCY line
Keyed(lines, p, key) ==
  /\ incdict' = DictSet(incdict, key, p.flux)
  /\ cumdict' = DictSet(cumdict, key, p.cumu)
  /\ keyline' = [keyline EXCEPT !.entry = p.entry, !.key = key, !.keyed = TRUE]
  /\ Read(lines, 1)
  /\ IF Upper(p.entry) = PERCENT_DISCREPANCY
     THEN Return(<<DictSet(incdict, key, p.flux), DictSet(cumdict, key, p.cumu)>>)
     ELSE UNCHANGED <<pc, out>>

\* lines 279-284: the line in hand is no budget line
Untagged(lines, line) ==
  /\ keyline' = [keyline EXCEPT
                   !.tag = IF Contains(Upper(line), <<"O","U","T",":">>) THEN TagOUT ELSE @]
  /\ Read(lines, 1)
  /\ IF Upper(keyline.entry) = PERCENT_DISCREPANCY
     THEN Return(<<incdict, cumdict>>)
     ELSE UNCHANGED <<pc, out>>
  /\ UNCHANGED <<incdict, cumdict>>

\* ListBudget._get_sp lines 250-284, one iteration of the second loop with
\* line in hand, p being what _parse_budget_line gives for it
BudgetIter(lines, line, p) ==
  IF line = << >>
  THEN Return(null_entries) /\ UNCHANGED <<f_pos, row, incdict, cumdict, keyline>>
  ELSE IF CountChar(line, "=") # 2 THEN Untagged(lines, line)
  ELSE IF p.flux = None \/ p.cumu = None
  THEN Return(null_entries) /\ UNCHANGED <<f_pos, row, incdict, cumdict, keyline>>
  ELSE Keyed(lines, p, BudgetKey(keyline.tag, p.entry))

\* the line in hand is the last line readline gave, the one at offset i
BudgetAt(t, i) == BudgetIter(t.lines, ReadLine(t.lines, i), t.budget[i + 1])

BudgetStep ==
  /\ pc = "budget"
  /\ BudgetAt(probe, out.arg + row - 1)
  /\ UNCHANGED <<report, idx_map, entries, null_entries, totim, inc, cum, err,
                 probe>>

\* ListTime._get_sp lines 473-487: the header loop ended with the step
\* length on the line at offset pos; reads counts the lines read after it
TimesParsed(t, pos, reads) ==
  /\ Return(TimesOf(ListTime, FALSE, t.time[pos], t.time[pos + 1],
                    t.time[pos + 2]))
  /\ Read(t.lines, pos - f_pos + 1 + reads)

\* ... the next one when the step length parses, and one more when the
\* period time parses too
TimesParsedAt(t, pos) ==
  TimesParsed(t, pos, IF t.time[pos] = None THEN 0
                      ELSE IF t.time[pos + 1] = None THEN 1 ELSE 2)

\* ListTime._get_sp lines 461-472, one iteration of the header loop: line
\* is what readline gave, ihead the count after it
HeaderIter(t, line, ihead) ==
  IF line = << >> THEN Read(t.lines, 1) /\ Return(null_entries)
  ELSE IF ihead = 2 /\ ~Contains(line, UnitsHeader)
  THEN TimesParsedAt(t, f_pos)
  ELSE IF Contains(line, Dashes) THEN TimesParsedAt(t, f_pos + 1)
  ELSE Read(t.lines, 1) /\ UNCHANGED <<pc, out>>

HeaderStep ==
  /\ pc = "header"
  /\ HeaderIter(probe, ReadLine(probe.lines, f_pos), row + 1)
  /\ UNCHANGED <<report, idx_map, entries, null_entries, incdict, cumdict,
                 totim, inc, cum, err, keyline, probe>>

LoopNext ==
  \/ IndexStep
  \/ SeekStep
  \/ BudgetStep
  \/ HeaderStep

LoopSpec == LoopInit /\ [][LoopNext]_vars /\ WF_vars(LoopNext)

\* ------------------------------------------------------------------------
\* Properties
\* ------------------------------------------------------------------------

\* the number of budget blocks in the file
K == Len(report.kinds)

\* _load has returned or raised
Done == pc \in {"loaded", "raised"}

STORAGE_IN == <<"S","T","O","R","A","G","E","_","I","N">>

WELLS_OUT == <<"W","E","L","L","S","_","O","U","T">>

PERCENT_DISCREPANCY_KEY == <<"P","E","R","C","E","N","T","_","D","I","S","C","R","E","P","A","N","C","Y">>

Unable == "unable to read budget information from first entry in list file"

MustBuild == "must call build_index before call set_entries"

\* the float of the integer n
Float(n) == Num(n, 0)

\* row i of table t, as key -> value
Row(t, i) == [k \in DOMAIN t.cols |-> t.cols[k][i]]

\* the rows the i-th block of kind "good" is printed from
GoodInc(i) ==
  (STORAGE_IN :> Float(i)) @@ (WELLS_OUT :> Float(2 * i))
    @@ (PERCENT_DISCREPANCY_KEY :> Float(0))

GoodCum(i) ==
  (STORAGE_IN :> Float(10 * i)) @@ (WELLS_OUT :> Float(20 * i))
    @@ (PERCENT_DISCREPANCY_KEY :> Float(0))

\* ... and of kind "nan": the cumulative STORAGE and the WELLS flux are
\* printed as not-a-number
NanInc(i) ==
  (STORAGE_IN :> Float(i)) @@ (WELLS_OUT :> NaN)
    @@ (PERCENT_DISCREPANCY_KEY :> Float(0))

NanCum(i) ==
  (STORAGE_IN :> NaN) @@ (WELLS_OUT :> Float(20 * i))
    @@ (PERCENT_DISCREPANCY_KEY :> Float(0))

AllMissing == [k \in {STORAGE_IN, WELLS_OUT, PERCENT_DISCREPANCY_KEY} |-> NaN]

\* block n is of kind k and every other block of the file is "good"
OnlyOther(n, k) ==
  /\ n \in 1..K
  /\ report.kinds[n] = k
  /\ \A j \in 1..K : j # n => report.kinds[j] = "good"

\* every row but row n of both tables holds what its block prints
OtherRowsGood(n) ==
  \A j \in 1..K : j # n => Row(inc, j) = GoodInc(j) /\ Row(cum, j) = GoodCum(j)

\* every block is complete, every field of it parses, its time summary
\* follows it, and all blocks carry the same labels
WellFormed ==
  /\ \A i \in 1..K : report.kinds[i] \in {"good", "full", "nan", "nounit"}
  /\ \A i, j \in 1..K : (report.kinds[i] = "full") = (report.kinds[j] = "full")

\* C1: after the load of a well-formed file of K blocks both tables have K
\* rows in file order (row i carries the time step and the values of block
\* i) and the same keys, and load does not fail when K >= 1; and after any
\* load every column of both tables is as long as the index
C1_TablesAligned ==
  /\ pc = "loaded" =>
       /\ DOMAIN inc.cols = DOMAIN cum.cols
       /\ \A k \in DOMAIN inc.cols :
            Len(inc.cols[k]) = Len(idx_map) /\ Len(cum.cols[k]) = Len(idx_map)
       /\ Len(inc.time_step) = Len(idx_map) /\ Len(cum.time_step) = Len(idx_map)
  /\ (WellFormed /\ K >= 1) => pc # "raised"
  /\ (WellFormed /\ pc = "loaded") =>
       /\ Len(idx_map) = K
       /\ Len(inc.totim) = K /\ Len(cum.totim) = K
       /\ \A i \in 1..K :
            /\ idx_map[i][1] = i
            /\ inc.time_step[i] = i /\ cum.time_step[i] = i
            /\ inc.totim[i] = Float(i) /\ cum.totim[i] = Float(i)
            /\ inc.cols[STORAGE_IN][i] = Float(i)
            /\ cum.cols[WELLS_OUT][i] = Float(20 * i)

C1_Witness == pc = "loaded" /\ WellFormed /\ K >= 2 /\ Len(inc.cols[STORAGE_IN]) = K

\* C2: a block after the first that lacks its PERCENT DISCREPANCY line
\* gives an all-missing row, the load completes, and every other row holds
\* what its block prints
C2_TruncatedBlockOnly ==
  \A n \in 2..K : (OnlyOther(n, "trunc") /\ Done) =>
     /\ pc = "loaded"
     /\ Row(inc, n) = AllMissing /\ Row(cum, n) = AllMissing
     /\ OtherRowsGood(n)

\* the first indexed block has a numeric field that does not parse
FirstUnparsable == K >= 1 /\ report.kinds[1] \in {"badflux", "badcumu"}

\* C3 as stated: when the first block cannot be parsed and a later one
\* can, load does not fail
C3_Original ==
  (FirstUnparsable /\ \E j \in 2..K : report.kinds[j] = "good") =>
     pc # "raised"

\* C3: when the first indexed block cannot be parsed, _set_entries raises
\* 'unable to read budget information from first entry in list file',
\* whatever the later blocks hold: no schema is set and no table is built
C3_FirstBlockFails ==
  (FirstUnparsable /\ pc \notin {"constructed", "indexed"}) =>
     /\ pc = "raised" /\ err = Unable
     /\ entries = {}
     /\ inc = NoTable /\ cum = NoTable

C3_Witness ==
  /\ K >= 2 /\ report.kinds[1] = "badflux" /\ report.kinds[2] = "good"
  /\ pc = "raised" /\ err = Unable

\* C4: when the block after the first (which carries DRAINS, TOTAL IN,
\* TOTAL OUT and IN - OUT as well) carries STORAGE and WELLS only, load
\* completes and the keys the second block lacks are not-a-number in row 2
C4_DivergentKeys ==
  (K >= 2 /\ report.kinds[1] = "full" /\ OnlyOther(1, "full") /\ Done) =>
     /\ pc = "loaded"
     /\ \A k \in DOMAIN inc.cols :
          k \notin DOMAIN GoodInc(2) => inc.cols[k][2] = NaN /\ cum.cols[k][2] = NaN

C6_Original ==
  (keyline.keyed /\ keyline.tag = TagIN /\ Contains(keyline.entry, <<" ","-"," ">>)) =>
     keyline.key = Replace(keyline.entry, " ", << >>)

\* C6: under the side tag IN the key of a label with " - " is the label
\* without its spaces when the label contains the text IN; when it does
\* not (and is not the PERCENT DISCREPANCY line) the key is the label with
\* "_" for every space, followed by _IN
C6_HyphenatedIn ==
  (keyline.keyed /\ keyline.tag = TagIN /\ Contains(keyline.entry, <<" ","-"," ">>)) =>
     /\ Contains(keyline.entry, <<"I","N">>) =>
          /\ keyline.key = Replace(keyline.entry, " ", << >>)
          /\ ~Contains(keyline.key, <<" ">>) /\ ~Contains(keyline.key, <<"_">>)
     /\ (~Contains(keyline.entry, <<"I","N">>)
           /\ ~Contains(keyline.entry, <<"P","E","R","C","E","N","T"," ","D","I","S","C","R","E","P","A","N","C","Y">>)) =>
          keyline.key = Replace(keyline.entry, " ", <<"_">>) \o <<"_","I","N">>

C6_Witness ==
  /\ keyline.keyed /\ keyline.tag = TagIN
  /\ keyline.entry = <<"I","N"," ","-"," ","O","U","T">> /\ keyline.key = <<"I","N","-","O","U","T">>

\* C7 as stated: under the side tag OUT the key of a label without PERCENT
\* DISCREPANCY is the label with "_" for every space, followed by _OUT
C7_Original ==
  (keyline.keyed /\ keyline.tag = TagOUT
     /\ ~Contains(keyline.entry, <<"P","E","R","C","E","N","T"," ","D","I","S","C","R","E","P","A","N","C","Y">>)) =>
     keyline.key = Replace(keyline.entry, " ", <<"_">>) \o <<"_","O","U","T">>

\* C7: ... when the label does not contain the text OUT either; a label
\* that contains OUT gets no suffix
C7_SimpleOut ==
  (keyline.keyed /\ keyline.tag = TagOUT
     /\ ~Contains(keyline.entry, <<"P","E","R","C","E","N","T"," ","D","I","S","C","R","E","P","A","N","C","Y">>)) =>
     /\ ~Contains(keyline.entry, <<"O","U","T">>) =>
          keyline.key = Replace(keyline.entry, " ", <<"_">>) \o <<"_","O","U","T">>
     /\ Contains(keyline.entry, <<"O","U","T">>) =>
          /\ keyline.key # Replace(keyline.entry, " ", <<"_">>) \o <<"_","O","U","T">>
          /\ Len(keyline.key) <= Len(keyline.entry)

C7_Witness ==
  /\ keyline.keyed /\ keyline.tag = TagOUT
  /\ keyline.entry = WELLS /\ keyline.key = WELLS_OUT

\* C8: when a block after the first prints not-a-number for its cumulative
\* STORAGE and its WELLS flux, load does not fail, exactly these two cells
\* of its row are not-a-number, and every other row holds what its block
\* prints
C8_PlaceholderCell ==
  \A n \in 2..K : OnlyOther(n, "nan") =>
     /\ pc # "raised"
     /\ pc = "loaded" =>
          /\ Row(inc, n) = NanInc(n) /\ Row(cum, n) = NanCum(n)
          /\ OtherRowsGood(n)

C8_Witness ==
  /\ K = 3 /\ OnlyOther(2, "nan") /\ pc = "loaded"
  /\ inc.cols[WELLS_OUT][2] = NaN /\ cum.cols[STORAGE_IN][2] = NaN

\* _load is past the block n of the file
Past(n) == (pc = "rows" /\ row > n) \/ pc \in {"timed", "loaded"}

\* C9: when a block after the first has a flux or a cumulative field that
\* does not parse, _get_sp gives not-a-number for every key of the schema
\* in both dictionaries, nothing is raised, and every other row holds what
\* its block prints
C9_MalformedBlock ==
  \A n \in 2..K :
    (OnlyOther(n, "badflux") \/ OnlyOther(n, "badcumu")) =>
       /\ pc # "raised"
       /\ Past(n) =>
            \A k \in entries : incdict[k][n] = NaN /\ cumdict[k][n] = NaN
       /\ pc = "loaded" =>
            /\ Row(inc, n) = AllMissing /\ Row(cum, n) = AllMissing
            /\ OtherRowsGood(n)

C9_Witness ==
  /\ K = 3 /\ OnlyOther(2, "badflux") /\ pc = "loaded"
  /\ Row(inc, 2) = AllMissing /\ Row(inc, 3) = GoodInc(3)

\* no line of lines holds the key phrase
NoKeyIn(lines, key) == \A i \in 1..Len(lines) : ~Contains(lines[i], key)

\* C10: on a file without a line that holds the key phrase the index is
\* empty, and load raises 'must call build_index before call set_entries'
\* from _set_entries: it never reads a block
C10_NoKeyPhrase ==
  NoKeyIn(txt, cfg.lstkey) =>
     /\ idx_map = << >>
     /\ pc \notin {"rows", "timed", "loaded"}
     /\ pc = "raised" => err = MustBuild

C10_Witness ==
  /\ report.kinds = << >> /\ ~report.banner
  /\ pc = "raised" /\ err = MustBuild /\ idx_map = << >>

\* C11 as stated: two calls of _get_sp at one offset of one file return
\* the same, whatever was called before and between them
C11_Original == probe.n = 2 => probe.first = probe.again

\* C11: two calls of _get_sp at one offset return the same when both
\* succeed or when self.null_entries is the same at both; a call that
\* fails returns self.null_entries as it is then, which is empty before
\* _set_entries and a pair of not-a-number mappings over the schema after
C11_SameUnlessSentinel ==
  probe.n = 2 =>
     /\ probe.firstNull = probe.againNull => probe.first = probe.again
     /\ probe.first # probe.again =>
          /\ probe.first = probe.firstNull /\ probe.again = probe.againNull
          /\ probe.firstNull = << >> /\ probe.againNull = null_entries

C11_Witness ==
  /\ probe.n = 2 /\ pc = "rows"
  /\ probe.first = << >>
  /\ probe.again = <<[k \in entries |-> NaN], [k \in entries |-> NaN]>>

\* the time step the budget header of block i prints
PrintedTs(i) == IF report.kinds[i] = "again" THEN 1 ELSE i

\* block j is the first of the file whose header line cannot be
\* classified
FirstBadHeader(j) ==
  /\ j \in 1..K
  /\ report.kinds[j] = "badhdr"
  /\ \A i \in 1..(j - 1) : report.kinds[i] # "badhdr"

\* C12: when the header of block j is the first that cannot be classified,
\* _build_index returns to _load without raising and the index holds the
\* j - 1 blocks before it, in file order, and no block after it
C12_IndexStopsAtBadHeader ==
  \A j \in 1..K : (FirstBadHeader(j) /\ pc # "constructed") =>
     /\ Len(idx_map) = j - 1
     /\ \A i \in 1..(j - 1) : idx_map[i][1] = PrintedTs(i) /\ idx_map[i][2] = 1
     /\ pc = "indexed" => err = ""
     /\ (pc = "raised" /\ j = 1) => err = MustBuild

C12_Witness ==
  /\ K = 3 /\ FirstBadHeader(2) /\ report.kinds[3] = "good"
  /\ pc = "indexed" /\ Len(idx_map) = 1

\* C13: get_dataframes with a start_datetime that is not None returns the
\* two dataframes, each with one row per index entry, and does not raise
C13_DataframesReturned ==
  (out.call = "get_dataframes" /\ out.arg # "None") =>
     /\ out.raised = ""
     /\ Len(out.val) = 2
     /\ \A t \in 1..Len(out.val) : Len(out.val[t].index) = Len(idx_map)

\* C14: every pair get_kstpkper returns is one less, in both components,
\* than the time step and the stress period its block was indexed with
C14_ZeroBased ==
  out.call = "get_kstpkper" =>
     /\ Len(out.val) = Len(idx_map)
     /\ \A i \in 1..Len(out.val) :
          out.val[i] = <<idx_map[i][1] - 1, idx_map[i][2] - 1>>

\* every entry of idxs has the offset of a line of the file that contains
\* the key phrase, and the offsets are in file order
IndexInFileOrder(lines, key, idxs) ==
  /\ \A i \in 1..Len(idxs) :
       /\ idxs[i][3] \in 0..(Len(lines) - 1)
       /\ Contains(lines[idxs[i][3] + 1], key)
  /\ \A i \in 1..(Len(idxs) - 1) : idxs[i][3] < idxs[i + 1][3]

\* the number of blocks before the first header that cannot be classified
IndexedBlocks ==
  IF \E j \in 1..K : FirstBadHeader(j)
  THEN (CHOOSE j \in 1..K : FirstBadHeader(j)) - 1
  ELSE K

\* C15: every index entry has the offset of the start of a line that
\* contains the key phrase, the offsets increase strictly, and every block
\* before the first unclassifiable header has its own entry with the pair
\* its header prints, also when an earlier block printed the same pair
C15_IndexInFileOrder ==
  pc # "constructed" =>
     /\ IndexInFileOrder(txt, cfg.lstkey, idx_map)
     /\ Len(idx_map) = IndexedBlocks
     /\ \A i \in 1..Len(idx_map) :
          idx_map[i][1] = PrintedTs(i) /\ idx_map[i][2] = 1

C15_Witness ==
  /\ K = 3 /\ report.kinds[3] = "again" /\ pc = "indexed"
  /\ Len(idx_map) = 3
  /\ idx_map[1][1] = idx_map[3][1] /\ idx_map[1][2] = idx_map[3][2]
  /\ idx_map[1][3] < idx_map[3][3]

\* every entry of idxs carries the pair _get_ts_sp gives for the line d
\* lines after the last line the locator read for it (the key-phrase line
\* and tssp_lines more)
ClassifiedFrom(c, lines, idxs, d) ==
  \A i \in 1..Len(idxs) :
     GetTsSp(c, ReadLine(lines, idxs[i][3] + c.tssp_lines + d))
       = [ok |-> TRUE, ts |-> idxs[i][1], sp |-> idxs[i][2]]

\* C16 as stated: the pair of every index entry is classified from the
\* line that follows the skipped lines
C16_Original == pc # "constructed" => ClassifiedFrom(cfg, txt, idx_map, 1)

\* C16: after the key-phrase line the locator reads exactly tssp_lines
\* further lines and classifies the last line it read: the key-phrase line
\* itself when tssp_lines = 0, the line after it when tssp_lines = 1; and
\* every block before the first unclassifiable header is indexed this way
C16_ClassifiesLastLineRead ==
  pc # "constructed" =>
     /\ ClassifiedFrom(cfg, txt, idx_map, 0)
     /\ Len(idx_map) = IndexedBlocks

C16_Witness ==
  /\ report.variant = "swr" /\ report.banner /\ K = 2 /\ pc = "indexed"
  /\ Len(idx_map) = 2
  /\ Contains(txt[idx_map[2][3] + 1], cfg.lstkey)
  /\ GetTsSp(cfg, txt[idx_map[2][3] + 2]) = [ok |-> TRUE, ts |-> 2, sp |-> 1]

\* C17 as stated: under the side tag IN the key of a label without " - "
\* is the label with "_" for every space, without suffix
C17_Original ==
  (keyline.keyed /\ keyline.tag = TagIN /\ ~Contains(keyline.entry, <<" ","-"," ">>)) =>
     keyline.key = Replace(keyline.entry, " ", <<"_">>)

\* C17: ... when the label contains the text IN or PERCENT DISCREPANCY;
\* every other label without " - " gets the suffix _IN after its
\* underscored text
C17_SimpleIn ==
  (keyline.keyed /\ keyline.tag = TagIN /\ ~Contains(keyline.entry, <<" ","-"," ">>)) =>
     /\ (Contains(keyline.entry, <<"I","N">>)
          \/ Contains(keyline.entry, <<"P","E","R","C","E","N","T"," ","D","I","S","C","R","E","P","A","N","C","Y">>)) =>
          keyline.key = Replace(keyline.entry, " ", <<"_">>)
     /\ (~Contains(keyline.entry, <<"I","N">>)
          /\ ~Contains(keyline.entry, <<"P","E","R","C","E","N","T"," ","D","I","S","C","R","E","P","A","N","C","Y">>)) =>
          keyline.key = Replace(keyline.entry, " ", <<"_">>) \o <<"_","I","N">>

C17_Witness ==
  /\ keyline.keyed /\ keyline.tag = TagIN
  /\ keyline.entry = <<"S","T","O","R","A","G","E"," ","U","N","S","A","T","U","R","A","T","E","D">>
  /\ keyline.key = <<"S","T","O","R","A","G","E","_","U","N","S","A","T","U","R","A","T","E","D","_","I","N">>

\* the label of a budget line (line 290 of _parse_budget_line)
LabelOf(line) == Strip(SplitFirst(Strip(line), "="))

\* the offsets of the lines with exactly two '=' at or after off
DataLines(lines, off) ==
  {p \in off..(Len(lines) - 1) : CountChar(lines[p + 1], "=") = 2}

\* the lines of D up to and including the first of S, the lines of D whose
\* label is PERCENT DISCREPANCY
UpToSentinel(D, S) == {p \in D : \A q \in S : p <= q}

\* the lines that change the side tag: those without two '=' that hold
\* OUT:, after the first data line
OutLines(lines, D) ==
  {q \in (0..(Len(lines) - 1)) \ D :
     (\E d \in D : d < q) /\ Contains(Upper(lines[q + 1]), <<"O","U","T",":">>)}

\* the key of every data line of S: its side tag is OUT once a line of O
\* came before it
KeysOf(lines, S, O) ==
  [p \in S |-> BudgetKey(IF \E q \in O : q < p THEN TagOUT ELSE TagIN,
                          LabelOf(lines[p + 1]))]

\* the mapping the keyed lines give: every key with the field of the last
\* line that has it
MappingOf(c, lines, keys, field) ==
  [k \in {keys[p] : p \in DOMAIN keys} |->
     ParseBudgetLine(c, lines[MaxOf({p \in DOMAIN keys : keys[p] = k}) + 1])[field]]

ExtractedFrom(c, lines, keys) ==
  <<MappingOf(c, lines, keys, "flux"), MappingOf(c, lines, keys, "cumu")>>

\* the pair of mappings of the data lines D, up to the sentinel
Extracted(c, lines, D) ==
  ExtractedFrom(c, lines,
    KeysOf(lines,
           UpToSentinel(D, {q \in D : Upper(LabelOf(lines[q + 1]))
                                        = PERCENT_DISCREPANCY}),
           OutLines(lines, D)))

\* C18: an extraction that succeeds returns the mappings of exactly the
\* lines with two '=' from the first at or after the offset to the first
\* whose label is PERCENT DISCREPANCY, which exists; no later line
\* contributes a key or a value
C18_UpToSentinel ==
  (probe.n >= 1 /\ probe.first # probe.firstNull) =>
     probe.first = Extracted(cfg, txt, DataLines(txt, probe.off))

C18_Witness ==
  /\ probe.n >= 1 /\ probe.off = 1 /\ report.kinds = <<"trunc", "good">>
  /\ probe.first # probe.firstNull
  /\ DOMAIN probe.first[1]
       = {STORAGE_IN, WELLS_OUT, <<"S","T","O","R","A","G","E","_","O","U","T">>, PERCENT_DISCREPANCY_KEY}
  /\ probe.first[1][WELLS_OUT] = Float(4)

\* the blocks of the file that have a time summary, in file order
TimedBlocks ==
  SelectSeq([j \in 1..K |-> j], LAMBDA j : report.kinds[j] # "notime")

\* the total elapsed time the time summary of block j prints
TotalOf(j) == IF report.kinds[j] = "badtime" THEN NaN ELSE Float(j)

\* C19: when the file has as many time summaries as the budget index has
\* entries, row i of both tables carries the total elapsed time of the
\* i-th time summary of the file, whatever time step the header of the
\* i-th budget block prints
C19_TotimByPosition ==
  (pc = "loaded" /\ Len(TimedBlocks) = Len(idx_map)) =>
     \A i \in 1..Len(idx_map) :
        /\ inc.totim[i] = TotalOf(TimedBlocks[i])
        /\ cum.totim[i] = TotalOf(TimedBlocks[i])

C19_Witness ==
  /\ K = 3 /\ report.kinds[3] = "again" /\ pc = "loaded"
  /\ inc.time_step[3] = 1 /\ inc.totim[3] = Float(3) /\ cum.totim[3] = Float(3)

\* _load has read every row of a non-empty index and has returned or
\* raised, and the file has not as many time summaries as the index has
\* entries
Mismatched ==
  /\ Done /\ idx_map # << >> /\ row > Len(idx_map)
  /\ Len(TimedBlocks) # Len(idx_map)

C21_AllOrNothing ==
  out.call = "ListTime._get_sp" =>
     /\ out.raised = ""
     /\ Len(out.val) = 3
     /\ \/ out.val = ListTime.null_entries
        \/ \A i \in 1..3 : out.val[i] \notin {NaN, None}
     /\ out.arg >= Len(txt) - 3 => out.val = ListTime.null_entries
     /\ \A i \in 1..Len(idx_map) : out.arg = idx_map[i][3] =>
          out.val = IF report.kinds[TimedBlocks[i]] = "badtime"
                    THEN ListTime.null_entries
                    ELSE <<Float(1), Float(TimedBlocks[i]),
                           Float(TimedBlocks[i])>>

C21_Witness ==
  /\ report.kinds = <<"good", "badtime">> /\ Len(idx_map) = 2
  /\ out.call = "ListTime._get_sp" /\ out.arg = idx_map[2][3]
  /\ ParseTimeLine(ListTime, txt[out.arg + 4]) = Float(1)
  /\ ParseTimeLine(ListTime, txt[out.arg + 5]) = Float(2)
  /\ ParseTimeLine(ListTime, txt[out.arg + 6]) = None
  /\ out.val = <<NaN, NaN, NaN>>

\* C22: when _load is called again on an instance whose schema is set, the
\* schema and both tables stay as the first load left them, the call gets
\* no further than the schema-setting step, and that step raises 'entries
\* already set'
C22_SchemaSetOnce ==
  (out.call = "_load" /\ out.val[1] # {}) =>
     /\ entries = out.val[1] /\ inc = out.val[2] /\ cum = out.val[3]
     /\ pc \in {"constructed", "indexed", "raised"}
     /\ pc = "raised" => err = "entries already set"

C22_Witness ==
  /\ out.call = "_load" /\ pc = "raised" /\ err = "entries already set"
  /\ report.kinds = <<"good", "good">>
  /\ entries = {STORAGE_IN, WELLS_OUT, PERCENT_DISCREPANCY_KEY}
  /\ inc.cols[STORAGE_IN] = <<Float(1), Float(2)>>
  /\ idx_map = << >>

\* C23: the key of a data line is the key of no other data line of the
\* block, i.e. of no line that differs from it in side tag or label (the
\* PERCENT DISCREPANCY line, which ends the block, aside)
C23_DistinctKeys ==
  (keyline.keyed /\ keyline.entry # PERCENT_DISCREPANCY) =>
     \A t \in {TagIN, TagOUT}, l \in Labels \ {PERCENT_DISCREPANCY} :
        <<t, l>> # <<keyline.tag, keyline.entry>>
          => BudgetKey(t, l) # keyline.key

\* the call returned what r holds and left the stream where r says
ReturnedAs(val, pos) == out.val = val /\ f_pos = pos

ReturnedIndex(r) == ReturnedAs(r.idxs, r.pos)

ReturnedBudget(r) == ReturnedAs(r.ret, r.pos)

\* the stepped call returned what the call as a whole gives
ReturnedWhole(c, lines) ==
  CASE out.call = "_get_index" ->
         ReturnedIndex(GetIndex(c, lines, out.arg, 0))
    [] out.call = "_get_sp" ->
         ReturnedBudget(GetSp(c, lines, null_entries, out.arg))
    [] OTHER ->
         ReturnedAs(GetSpTime(ListTime, lines, out.arg),
                    TimesEnd(ListTime, lines, SeekTimes(lines, out.arg, 0)))

\* C24: every call of the index build, the budget extraction and the time
\* extraction returns; every iteration that does not end the call calls
\* readline, which moves the stream forward unless the stream is at its
\* end; readline is called at most once at the end of the stream, after
\* which the call ends; and the call returns the index built so far, or
\* the missing sentinel, exactly as the call as a whole does
C24_Terminates ==
  /\ <>(pc = "returned")
  /\ [][pc' # "returned" =>
          /\ row' > row
          /\ f_pos' > f_pos \/ f_pos' = Len(txt)]_vars
  /\ [](row <= Len(txt) - out.arg + 1)
  /\ [](pc = "returned" => ReturnedWhole(cfg, txt))

C24_Witness ==
  /\ pc = "returned" /\ out.call = "_get_sp" /\ out.arg = 1
  /\ report.kinds = <<"trunc">>
  /\ out.val = << >>
  /\ f_pos = Len(txt) /\ row = Len(txt) - out.arg + 1

====
